---- MODULE Spec2Model ----
(***************************************************************************)
(* Task Graph Store of richgo/flo: the Task status machine, the Registry   *)
(* (CRUD, dependency validation, cycle detection, ready set) and the       *)
(* file-locked, versioned persistence protocol (Registry.Save / Load),     *)
(* together with Workspace.SetTaskStatus, which composes them; and the     *)
(* resilience layer: CircuitBreaker and RetryableBackend.retryWithBackoff. *)
(*                                                                         *)
(* A Task is the record [id, title, status, deps]; the other fields of the *)
(* Go struct (description, priority, repo, spec_ref, timestamps) are never *)
(* read by the code modelled here.  A Registry's map is a function whose   *)
(* DOMAIN is the set of keys.  The empty string is Go's nil error.         *)
(***************************************************************************)
EXTENDS Integers, Sequences, FiniteSets, TLC

VARIABLES
    tasks,      \* tasks[r]   : Registry.tasks of registry r (id -> Task)
    version,    \* version[r] : Registry.version of registry r
    mu,         \* mu[r]      : thread holding Registry.mu of r for writing, or "free"
    file,       \* the manifest file: [state, version, tasks]
    flock,      \* flock[t]   : advisory lock thread t's descriptor holds on the file
    pc,         \* pc[t]      : position of thread t inside Save / Load
    buf,        \* buf[t]     : local registryData of thread t (decoded or marshalled)
    ret,        \* the call that returned last: [op, id, arg, err]
    argTask,    \* the Task passed to that call, where a specification records it
    last,       \* last[t]   : how thread t's latest whole Save or Load ended
    state,            \* CircuitBreaker.state
    failures,         \* CircuitBreaker.failures
    lastFailureTime,  \* CircuitBreaker.lastFailureTime, -1 for the zero time.Time
    now,              \* the clock that time.Now() reads
    cbpc,             \* cbpc[g] : position of goroutine g inside CircuitBreaker.Call
    streak,           \* failures of the wrapped operation since it last succeeded
    config,           \* RetryableBackend.config
    ctxDone,          \* ctxDone[g] : the ctx of g's retryWithBackoff is cancelled
    retry,            \* retry[g]   : g's retryWithBackoff: position and locals
    seq,              \* seq[g]     : what g's retry sequence has done so far
    usage,            \* Tracker.usage[backend] of the one backend in use
    quotaFile,        \* what Tracker.save wrote last
    tpc,              \* tpc[g]   : position of goroutine g inside Tracker.IsExhausted
    since             \* since[g] : calls that completed since g's IsExhausted read usage

breakerVars == <<state, failures, lastFailureTime, now, cbpc, streak>>

retryVars == <<config, ctxDone, retry, seq>>

quotaVars == <<usage, quotaFile, tpc, since>>

vars == <<tasks, version, mu, file, flock, pc, buf, ret, argTask, last, breakerVars, retryVars, quotaVars>>

----------------------------------------------------------------------------
(* Bounds of the model *)

MaxDeps == 2        \* longest Deps list a caller passes
MaxVersion == 2     \* Save is not started once the in-memory version reached this
failureThreshold == 2   \* NewCircuitBreaker's first argument
resetTimeout == 2       \* NewCircuitBreaker's second argument, in clock ticks
MaxTime == 6            \* the clock stops here
MaxRetries == 3         \* largest RetryConfig.MaxRetries a wrapper is built with
MaxRequests == 3        \* Record is not called once Usage.Requests reached this

IDs == {"a", "b", "c"}
Regs == {"r1", "r2"}
Threads == {"t1", "t2", "t3"}
\* t1 and t2 are goroutines of one process sharing registry r1; t3 is another process
RegOf == [t \in Threads |-> IF t = "t3" THEN "r2" ELSE "r1"]

----------------------------------------------------------------------------
(* Task *)

StatusPending == "pending"
StatusInProgress == "in_progress"
StatusComplete == "complete"
StatusFailed == "failed"

IsValid(s) == s \in {StatusPending, StatusInProgress, StatusComplete, StatusFailed}

New(id, title) == [id |-> id, title |-> title, status |-> StatusPending, deps |-> <<>>]

Validate(t) ==
    IF t.id = "" THEN "task ID cannot be empty"
    ELSE IF t.title = "" THEN "task title cannot be empty"
    ELSE IF t.status # "" /\ ~IsValid(t.status) THEN "invalid status"
    ELSE ""

\* validTransitions[from] is the set of allowed next statuses; a status that
\* is no key of the Go map is outside the DOMAIN
validTransitions ==
    (StatusPending :> {StatusInProgress}) @@
    (StatusInProgress :> {StatusComplete, StatusFailed}) @@
    (StatusComplete :> {}) @@
    (StatusFailed :> {StatusPending})

\* SetStatus without its early return for newStatus = current status
SetStatusErrNoSelf(t, newStatus) ==
    IF t.status \notin DOMAIN validTransitions THEN "unknown current status"
    ELSE IF newStatus \notin validTransitions[t.status] THEN "invalid status transition"
    ELSE ""

SetStatusErr(t, newStatus) ==
    IF t.status = newStatus THEN ""
    ELSE IF t.status \notin DOMAIN validTransitions THEN "unknown current status"
    ELSE IF newStatus \notin validTransitions[t.status] THEN "invalid status transition"
    ELSE ""

\* the Task after t.SetStatus(newStatus)
SetStatus(t, newStatus) ==
    IF SetStatusErr(t, newStatus) = "" THEN [t EXCEPT !.status = newStatus] ELSE t

----------------------------------------------------------------------------
(* Registry: helpers that run with Registry.mu held *)

NoFile == [state |-> "absent", version |-> 0, tasks |-> <<>>]
NoRet == [op |-> "", id |-> "", arg |-> "", err |-> ""]
\* the nil *Task
NoTask == [id |-> "", title |-> "", status |-> "", deps |-> <<>>]

EmptyMap == [k \in {} |-> New("", "")]

Put(m, t) == (t.id :> t) @@ m
Remove(m, id) == [k \in DOMAIN m \ {id} |-> m[k]]

\* a dependency check that stops after the first dependency
validateDepsFirst(m, t) ==
    IF Len(t.deps) = 0 \/ t.deps[1] \in DOMAIN m THEN "" ELSE "dependency not found"

validateDepsLocked(m, t) ==
    IF \A i \in 1..Len(t.deps) : t.deps[i] \in DOMAIN m THEN "" ELSE "dependency not found"

\* a ready test that is satisfied by one Complete dependency
allDepsCompleteAny(m, t) ==
    \/ Len(t.deps) = 0
    \/ \E i \in 1..Len(t.deps) :
          t.deps[i] \in DOMAIN m /\ m[t.deps[i]].status = StatusComplete

allDepsCompleteLocked(m, t) ==
    \A i \in 1..Len(t.deps) :
        t.deps[i] \in DOMAIN m /\ m[t.deps[i]].status = StatusComplete

RECURSIVE checkCircularNoRevisit(_, _, _, _, _)
\* a search that reports a cycle when it meets a task it has visited already
checkCircularNoRevisit(m, startID, deps, i, visited) ==
    IF i > Len(deps) THEN [found |-> FALSE, visited |-> visited]
    ELSE IF deps[i] = startID \/ deps[i] \in visited
        THEN [found |-> TRUE, visited |-> visited]
    ELSE IF deps[i] \notin DOMAIN m
        THEN checkCircularNoRevisit(m, startID, deps, i + 1, visited \cup {deps[i]})
    ELSE LET sub == checkCircularNoRevisit(m, startID, m[deps[i]].deps, 1,
                                           visited \cup {deps[i]})
         IN  IF sub.found THEN sub
             ELSE checkCircularNoRevisit(m, startID, deps, i + 1, sub.visited)

\* depth-first search over deps[i..], sharing one visited set; the result is
\* whether startID was met and the visited set as the Go map is left
RECURSIVE checkCircularFrom(_, _, _, _, _)
checkCircularFrom(m, startID, deps, i, visited) ==
    IF i > Len(deps) THEN [found |-> FALSE, visited |-> visited]
    ELSE IF deps[i] = startID THEN [found |-> TRUE, visited |-> visited]
    ELSE IF deps[i] \in visited THEN checkCircularFrom(m, startID, deps, i + 1, visited)
    ELSE IF deps[i] \notin DOMAIN m
        THEN checkCircularFrom(m, startID, deps, i + 1, visited \cup {deps[i]})
    ELSE LET sub == checkCircularFrom(m, startID, m[deps[i]].deps, 1,
                                      visited \cup {deps[i]})
         IN  IF sub.found THEN sub
             ELSE checkCircularFrom(m, startID, deps, i + 1, sub.visited)

\* a cycle check that looks at the new deps only, without descending
checkCircularDirect(m, startID, deps) ==
    IF \E i \in 1..Len(deps) : deps[i] = startID
    THEN "circular dependency detected" ELSE ""

checkCircularLocked(m, startID, deps) ==
    IF checkCircularFrom(m, startID, deps, 1, {}).found
    THEN "circular dependency detected" ELSE ""

\* Delete without its search for dependents
HasDependentsSkipped(m, id) == FALSE

\* some task of m lists id in its deps
HasDependents(m, id) ==
    \E k \in DOMAIN m : \E i \in 1..Len(m[k].deps) : m[k].deps[i] = id

\* GetReady ranges over the map in an order the runtime picks
RECURSIVE GetReadyOver(_, _)
GetReadyOver(m, keys) ==
    IF keys = {} THEN <<>>
    ELSE LET k == CHOOSE x \in keys : TRUE
             rest == GetReadyOver(m, keys \ {k})
         IN  IF m[k].status # StatusPending THEN rest
             ELSE IF allDepsCompleteLocked(m, m[k]) THEN <<m[k]>> \o rest
             ELSE rest

\* a ready set that only looks at the tasks without dependencies
GetReadyRoots(m) == GetReadyOver(m, {k \in DOMAIN m : m[k].deps = <<>>})

GetReady(m) == GetReadyOver(m, DOMAIN m)

\* Get(id): the stored Task and nil, or nil and the not-found error
Get(m, id) ==
    IF id \in DOMAIN m THEN [task |-> m[id], err |-> ""]
    ELSE [task |-> NoTask, err |-> "not found"]

----------------------------------------------------------------------------
(* Registry: the error each mutation returns, and the map it leaves *)

\* Add without its test for an existing key
AddErrNoDuplicate(m, t) ==
    IF Validate(t) # "" THEN "invalid task"
    ELSE validateDepsLocked(m, t)

AddErr(m, t) ==
    IF Validate(t) # "" THEN "invalid task"
    ELSE IF t.id \in DOMAIN m THEN "already exists"
    ELSE validateDepsLocked(m, t)

\* Update without its search for a cycle
UpdateErrNoCycleCheck(m, t) ==
    IF Validate(t) # "" THEN "invalid task"
    ELSE IF t.id \notin DOMAIN m THEN "not found"
    ELSE validateDepsLocked(m, t)

UpdateErr(m, t) ==
    IF Validate(t) # "" THEN "invalid task"
    ELSE IF t.id \notin DOMAIN m THEN "not found"
    ELSE IF validateDepsLocked(m, t) # "" THEN "dependency not found"
    ELSE checkCircularLocked(m, t.id, t.deps)

\* Delete looking at the deps of the task itself instead of its dependents
DeleteErrOwnDeps(m, id) ==
    IF id \notin DOMAIN m THEN "not found"
    ELSE IF Len(m[id].deps) > 0 THEN "cannot delete task"
    ELSE ""

DeleteErr(m, id) ==
    IF id \notin DOMAIN m THEN "not found"
    ELSE IF HasDependents(m, id) THEN "cannot delete task"
    ELSE ""

\* the map after the call, given the error the checks produced
AddMap(m, t, err) == IF err = "" THEN Put(m, t) ELSE m

\* Update storing the task before the cycle check has run
UpdateMapEager(m, t, err) ==
    IF err \in {"", "circular dependency detected"} THEN Put(m, t) ELSE m

UpdateMap(m, t, err) == IF err = "" THEN Put(m, t) ELSE m
DeleteMap(m, id, err) == IF err = "" THEN Remove(m, id) ELSE m

\* some goroutine holds r.mu.RLock() of registry r: it is inside GetReady
Reading(r) == \E u \in Threads : RegOf[u] = r /\ pc[u] = "get_ready"

\* r.mu.RLock() is granted to t: no goroutine holds the write lock
CanRLock(t) == pc[t] = "idle" /\ mu[RegOf[t]] = "free"

\* r.mu.Lock() is granted to t: no goroutine holds the lock in either mode
Idle(t) == pc[t] = "idle" /\ mu[RegOf[t]] = "free" /\ ~Reading(RegOf[t])

Return(op, id, arg, err) == ret' = [op |-> op, id |-> id, arg |-> arg, err |-> err]

\* Registry.Add, with the Task passed recorded in argTask
AddCall(t, task) ==
    /\ Idle(t)
    /\ LET err == AddErr(tasks[RegOf[t]], task)
       IN  /\ tasks' = [tasks EXCEPT ![RegOf[t]] = AddMap(@, task, err)]
           /\ Return("Add", task.id, "", err)
    /\ argTask' = task
    /\ UNCHANGED <<version, mu, file, flock, pc, buf, last, breakerVars, retryVars, quotaVars>>

\* the same call where the Task passed is not recorded
Add(t, task) ==
    /\ Idle(t)
    /\ LET err == AddErr(tasks[RegOf[t]], task)
       IN  /\ tasks' = [tasks EXCEPT ![RegOf[t]] = AddMap(@, task, err)]
           /\ Return("Add", task.id, "", err)
    /\ UNCHANGED <<version, mu, file, flock, pc, buf, argTask, last, breakerVars, retryVars, quotaVars>>

\* Registry.Update, with the Task passed recorded in argTask
UpdateCall(t, task) ==
    /\ Idle(t)
    /\ LET err == UpdateErr(tasks[RegOf[t]], task)
       IN  /\ tasks' = [tasks EXCEPT ![RegOf[t]] = UpdateMap(@, task, err)]
           /\ Return("Update", task.id, "", err)
    /\ argTask' = task
    /\ UNCHANGED <<version, mu, file, flock, pc, buf, last, breakerVars, retryVars, quotaVars>>

\* the same call where the Task passed is not recorded
Update(t, task) ==
    /\ Idle(t)
    /\ LET err == UpdateErr(tasks[RegOf[t]], task)
       IN  /\ tasks' = [tasks EXCEPT ![RegOf[t]] = UpdateMap(@, task, err)]
           /\ Return("Update", task.id, "", err)
    /\ UNCHANGED <<version, mu, file, flock, pc, buf, argTask, last, breakerVars, retryVars, quotaVars>>

Delete(t, id) ==
    /\ Idle(t)
    /\ LET err == DeleteErr(tasks[RegOf[t]], id)
       IN  /\ tasks' = [tasks EXCEPT ![RegOf[t]] = DeleteMap(@, id, err)]
           /\ Return("Delete", id, "", err)
    /\ UNCHANGED <<version, mu, file, flock, pc, buf>>
    /\ UNCHANGED <<argTask, last, breakerVars, retryVars, quotaVars>>

----------------------------------------------------------------------------
(* Persistence: the JSON form of a Task and of registryData *)

\* json.Marshal of a Task whose deps field is never written
EncodeNoDeps(task) ==
    [id |-> task.id, title |-> task.title, status |-> task.status]

\* json.Marshal of a Task: deps carries omitempty
Encode(task) ==
    IF Len(task.deps) = 0
    THEN [id |-> task.id, title |-> task.title, status |-> task.status]
    ELSE [id |-> task.id, title |-> task.title, status |-> task.status,
          deps |-> task.deps]

\* json.Decode into a Task: a missing deps field leaves the nil slice
Decode(j) ==
    [id |-> j.id, title |-> j.title, status |-> j.status,
     deps |-> IF "deps" \in DOMAIN j THEN j.deps ELSE <<>>]

\* the orders in which ranging over the map can append its tasks to data.Tasks
Orders(m) ==
    {s \in [1..Cardinality(DOMAIN m) -> DOMAIN m] :
        \A i, j \in DOMAIN s : i # j => s[i] # s[j]}

\* a document that carries the version the Registry had before its increment
MarshalOldVersion(v, m, order) ==
    [state |-> "data", version |-> v - 1,
     tasks |-> [i \in DOMAIN order |-> Encode(m[order[i]])]]

Marshal(v, m, order) ==
    [state |-> "data", version |-> v,
     tasks |-> [i \in DOMAIN order |-> Encode(m[order[i]])]]

Truncated == [state |-> "empty", version |-> 0, tasks |-> <<>>]

\* Load's first pass over data.Tasks[i..]: stops at the first invalid task
RECURSIVE LoadTasks(_, _, _)
LoadTasks(list, i, m) ==
    IF i > Len(list) THEN [err |-> "", m |-> m]
    ELSE IF Validate(Decode(list[i])) # "" THEN [err |-> "invalid task", m |-> m]
    ELSE LoadTasks(list, i + 1, Put(m, Decode(list[i])))

\* Load's two passes: the map it leaves and the error it returns
LoadResult(data) ==
    LET first == LoadTasks(data.tasks, 1, EmptyMap)
    IN  IF first.err # "" THEN first
        ELSE IF \E k \in DOMAIN first.m : validateDepsLocked(first.m, first.m[k]) # ""
        THEN [err |-> "dependency not found", m |-> first.m]
        ELSE first

\* a version check that only refuses a file older than the Registry
VersionConflictStale(f, v) == f.state = "data" /\ f.version < v

\* Save's optimistic-concurrency check of the decoded on-disk version
VersionConflict(f, v) == f.state = "data" /\ f.version # v

\* a lock request granted as a shared lock would be
CanLockExAsShared(t) == \A u \in Threads \ {t} : flock[u] # "ex"

\* flock(LOCK_EX) is granted when no other descriptor holds a lock
CanLockEx(t) == \A u \in Threads \ {t} : flock[u] = "none"
\* flock(LOCK_SH) is granted when no other descriptor holds the exclusive lock
CanLockSh(t) == \A u \in Threads \ {t} : flock[u] # "ex"

\* r.mu.Lock(), then os.OpenFile(path, O_RDWR|O_CREATE): creates the empty file
SaveOpen(t) ==
    /\ Idle(t)
    /\ version[RegOf[t]] < MaxVersion
    /\ mu' = [mu EXCEPT ![RegOf[t]] = t]
    /\ file' = IF file.state = "absent" THEN Truncated ELSE file
    /\ pc' = [pc EXCEPT ![t] = "save_lock"]
    /\ UNCHANGED <<tasks, version, flock, buf, ret>>
    /\ UNCHANGED <<argTask, last, breakerVars, retryVars, quotaVars>>

\* lockFile(file)
SaveLock(t) ==
    /\ pc[t] = "save_lock"
    /\ CanLockEx(t)
    /\ flock' = [flock EXCEPT ![t] = "ex"]
    /\ pc' = [pc EXCEPT ![t] = "save_check"]
    /\ UNCHANGED <<tasks, version, mu, file, buf, ret>>
    /\ UNCHANGED <<argTask, last, breakerVars, retryVars, quotaVars>>

\* Stat, decode the current version, compare; on a match version++, marshal
\* and Truncate(0).  A conflict returns through the deferred unlocks.
SaveCheck(t) ==
    /\ pc[t] = "save_check"
    /\ IF VersionConflict(file, version[RegOf[t]])
       THEN /\ Return("Save", "", "", "version conflict")
            /\ pc' = [pc EXCEPT ![t] = "idle"]
            /\ flock' = [flock EXCEPT ![t] = "none"]
            /\ mu' = [mu EXCEPT ![RegOf[t]] = "free"]
            /\ UNCHANGED <<tasks, version, file, buf>>
       ELSE /\ version' = [version EXCEPT ![RegOf[t]] = @ + 1]
            /\ \E order \in Orders(tasks[RegOf[t]]) :
                 buf' = [buf EXCEPT ![t] =
                            Marshal(version[RegOf[t]] + 1, tasks[RegOf[t]], order)]
            /\ file' = Truncated
            /\ pc' = [pc EXCEPT ![t] = "save_write"]
            /\ UNCHANGED <<tasks, mu, flock, ret>>
    /\ UNCHANGED <<argTask, last, breakerVars, retryVars, quotaVars>>

\* Seek(0, 0), Write(jsonData), then the deferred unlockFile, Close, mu.Unlock
SaveWrite(t) ==
    /\ pc[t] = "save_write"
    /\ file' = buf[t]
    /\ buf' = [buf EXCEPT ![t] = NoFile]
    /\ Return("Save", "", "", "")
    /\ pc' = [pc EXCEPT ![t] = "idle"]
    /\ flock' = [flock EXCEPT ![t] = "none"]
    /\ mu' = [mu EXCEPT ![RegOf[t]] = "free"]
    /\ UNCHANGED <<tasks, version>>
    /\ UNCHANGED <<argTask, last, breakerVars, retryVars, quotaVars>>

\* file.Truncate(0) fails after r.version++: Save returns the error through
\* the deferred unlocks and the file is as it was
SaveTruncateFail(t) ==
    /\ pc[t] = "save_check"
    /\ ~VersionConflict(file, version[RegOf[t]])
    /\ version' = [version EXCEPT ![RegOf[t]] = @ + 1]
    /\ Return("Save", "", "", "failed to truncate")
    /\ pc' = [pc EXCEPT ![t] = "idle"]
    /\ flock' = [flock EXCEPT ![t] = "none"]
    /\ mu' = [mu EXCEPT ![RegOf[t]] = "free"]
    /\ UNCHANGED <<tasks, file, buf>>
    /\ UNCHANGED <<argTask, last, breakerVars, retryVars, quotaVars>>

\* file.Write(jsonData) fails with nothing written: the file stays truncated
SaveWriteFail(t) ==
    /\ pc[t] = "save_write"
    /\ buf' = [buf EXCEPT ![t] = NoFile]
    /\ Return("Save", "", "", "failed to write")
    /\ pc' = [pc EXCEPT ![t] = "idle"]
    /\ flock' = [flock EXCEPT ![t] = "none"]
    /\ mu' = [mu EXCEPT ![RegOf[t]] = "free"]
    /\ UNCHANGED <<tasks, version, file>>
    /\ UNCHANGED <<argTask, last, breakerVars, retryVars, quotaVars>>

\* the manifest is replaced from outside the program while no descriptor
\* holds a lock on it
ForeignWrite(f) ==
    /\ \A t \in Threads : flock[t] = "none"
    /\ file # f
    /\ file' = f
    /\ UNCHANGED <<tasks, version, mu, flock, pc, buf, ret>>
    /\ UNCHANGED <<argTask, last, breakerVars, retryVars, quotaVars>>

\* os.Open(path)
LoadOpen(t) ==
    /\ pc[t] = "idle"
    /\ IF file.state = "absent"
       THEN /\ Return("Load", "", "", "failed to read")
            /\ UNCHANGED pc
       ELSE /\ pc' = [pc EXCEPT ![t] = "load_lock"]
            /\ UNCHANGED ret
    /\ UNCHANGED <<tasks, version, mu, file, flock, buf>>
    /\ UNCHANGED <<argTask, last, breakerVars, retryVars, quotaVars>>

\* syscall.Flock(fd, LOCK_SH)
LoadLock(t) ==
    /\ pc[t] = "load_lock"
    /\ CanLockSh(t)
    /\ flock' = [flock EXCEPT ![t] = "sh"]
    /\ pc' = [pc EXCEPT ![t] = "load_decode"]
    /\ UNCHANGED <<tasks, version, mu, file, buf, ret>>
    /\ UNCHANGED <<argTask, last, breakerVars, retryVars, quotaVars>>

\* decoder.Decode(&data): an empty file is an EOF error
LoadDecode(t) ==
    /\ pc[t] = "load_decode"
    /\ IF file.state # "data"
       THEN /\ Return("Load", "", "", "failed to unmarshal")
            /\ pc' = [pc EXCEPT ![t] = "idle"]
            /\ flock' = [flock EXCEPT ![t] = "none"]
            /\ UNCHANGED buf
       ELSE /\ buf' = [buf EXCEPT ![t] = file]
            /\ pc' = [pc EXCEPT ![t] = "load_mu"]
            /\ UNCHANGED <<flock, ret>>
    /\ UNCHANGED <<tasks, version, mu, file>>
    /\ UNCHANGED <<argTask, last, breakerVars, retryVars, quotaVars>>

\* r.mu.Lock(), replace the map, adopt the version, validate, deferred unlocks
LoadReplace(t) ==
    /\ pc[t] = "load_mu"
    /\ mu[RegOf[t]] = "free" /\ ~Reading(RegOf[t])
    /\ tasks' = [tasks EXCEPT ![RegOf[t]] = LoadResult(buf[t]).m]
    /\ version' = [version EXCEPT ![RegOf[t]] = buf[t].version]
    /\ Return("Load", "", "", LoadResult(buf[t]).err)
    /\ buf' = [buf EXCEPT ![t] = NoFile]
    /\ pc' = [pc EXCEPT ![t] = "idle"]
    /\ flock' = [flock EXCEPT ![t] = "none"]
    /\ UNCHANGED <<mu, file>>
    /\ UNCHANGED <<argTask, last, breakerVars, retryVars, quotaVars>>

\* Registry.Save as one step: nothing of another process runs between its
\* lock and its unlock once it holds the exclusive lock
AtomicSave(t) ==
    /\ Idle(t)
    /\ CanLockEx(t)
    /\ IF VersionConflict(file, version[RegOf[t]])
       THEN /\ Return("Save", "", "", "version conflict")
            /\ last' = [last EXCEPT ![t] = "conflict"]
            /\ UNCHANGED <<version, file>>
       ELSE /\ version' = [version EXCEPT ![RegOf[t]] = @ + 1]
            /\ \E order \in Orders(tasks[RegOf[t]]) :
                 file' = Marshal(version[RegOf[t]] + 1, tasks[RegOf[t]], order)
            /\ Return("Save", "", "", "")
            /\ last' = [u \in Threads |->
                          IF u = t THEN "saved"
                          ELSE IF last[u] = "loaded" THEN "stale" ELSE last[u]]
    /\ UNCHANGED <<tasks, mu, flock, pc, buf>>
    /\ UNCHANGED <<argTask, breakerVars, retryVars, quotaVars>>

\* a Load that replaces the tasks but keeps the Registry's version
AtomicLoadKeepsVersion(t) ==
    /\ Idle(t)
    /\ CanLockSh(t)
    /\ IF file.state # "data"
       THEN /\ Return("Load", "", "",
                      IF file.state = "absent" THEN "failed to read"
                      ELSE "failed to unmarshal")
            /\ last' = [last EXCEPT ![t] = "failed"]
            /\ UNCHANGED <<tasks, version>>
       ELSE /\ tasks' = [tasks EXCEPT ![RegOf[t]] = LoadResult(file).m]
            /\ UNCHANGED version
            /\ Return("Load", "", "", LoadResult(file).err)
            /\ last' = [last EXCEPT ![t] =
                           IF LoadResult(file).err = "" THEN "loaded" ELSE "failed"]
    /\ UNCHANGED <<mu, file, flock, pc, buf>>
    /\ UNCHANGED <<argTask, breakerVars, retryVars, quotaVars>>

\* Registry.Load as one step, under the shared lock
AtomicLoad(t) ==
    /\ Idle(t)
    /\ CanLockSh(t)
    /\ IF file.state # "data"
       THEN /\ Return("Load", "", "",
                      IF file.state = "absent" THEN "failed to read"
                      ELSE "failed to unmarshal")
            /\ last' = [last EXCEPT ![t] = "failed"]
            /\ UNCHANGED <<tasks, version>>
       ELSE /\ tasks' = [tasks EXCEPT ![RegOf[t]] = LoadResult(file).m]
            /\ version' = [version EXCEPT ![RegOf[t]] = file.version]
            /\ Return("Load", "", "", LoadResult(file).err)
            /\ last' = [last EXCEPT ![t] =
                           IF LoadResult(file).err = "" THEN "loaded" ELSE "failed"]
    /\ UNCHANGED <<mu, file, flock, pc, buf>>
    /\ UNCHANGED <<argTask, breakerVars, retryVars, quotaVars>>

----------------------------------------------------------------------------
(* Callers of the Registry *)

\* Get(id) under the read lock, then task.SetStatus(to) on the Task it
\* returned, which is the stored one, with no lock held
TaskSetStatus(t, id, to) ==
    /\ CanRLock(t)
    /\ id \in DOMAIN tasks[RegOf[t]]
    /\ tasks' = [tasks EXCEPT ![RegOf[t]][id] = SetStatus(@, to)]
    /\ Return("SetStatus", id, to, SetStatusErr(tasks[RegOf[t]][id], to))
    /\ UNCHANGED <<version, mu, file, flock, pc, buf>>
    /\ UNCHANGED <<argTask, last, breakerVars, retryVars, quotaVars>>

\* p, _ := r.Get(id) returns the stored *Task; the caller then assigns
\* p.Title, p.Status and p.Deps, with no call of the Registry
PointerWrite(t, id, task) ==
    /\ CanRLock(t)
    /\ id \in DOMAIN tasks[RegOf[t]]
    /\ task.id = id
    /\ tasks' = [tasks EXCEPT ![RegOf[t]][id] = task]
    /\ Return("FieldWrite", id, "", "")
    /\ UNCHANGED <<version, mu, file, flock, pc, buf>>
    /\ UNCHANGED <<argTask, last, breakerVars, retryVars, quotaVars>>

\* GetReady: r.mu.RLock(), before the loop over r.tasks
GetReadyBegin(t) ==
    /\ CanRLock(t)
    /\ pc' = [pc EXCEPT ![t] = "get_ready"]
    /\ UNCHANGED <<tasks, version, mu, file, flock, buf, ret>>
    /\ UNCHANGED <<argTask, last, breakerVars, retryVars, quotaVars>>

\* GetReady: the loop is over, the deferred RUnlock, return
GetReadyEnd(t) ==
    /\ pc[t] = "get_ready"
    /\ pc' = [pc EXCEPT ![t] = "idle"]
    /\ Return("GetReady", "", "", "")
    /\ UNCHANGED <<tasks, version, mu, file, flock, buf>>
    /\ UNCHANGED <<argTask, last, breakerVars, retryVars, quotaVars>>

\* Workspace.SetTaskStatus: Get, SetStatus on the stored Task, Update with
\* it, then Workspace.Save, whose Registry.Save runs here without another
\* thread or process in between
WsMap(m, id, status) ==
    IF id \notin DOMAIN m THEN m
    ELSE LET stored == [m EXCEPT ![id] = SetStatus(@, status)]
         IN  IF SetStatusErr(m[id], status) # "" THEN stored
             ELSE UpdateMap(stored, stored[id], UpdateErr(stored, stored[id]))

WsErr(m, f, v, id, status) ==
    IF id \notin DOMAIN m THEN "not found"
    ELSE IF SetStatusErr(m[id], status) # "" THEN SetStatusErr(m[id], status)
    ELSE IF UpdateErr(WsMap(m, id, status), SetStatus(m[id], status)) # ""
        THEN UpdateErr(WsMap(m, id, status), SetStatus(m[id], status))
    ELSE IF VersionConflict(f, v) THEN "version conflict"
    ELSE ""

WsSaves(m, id, status) ==
    /\ id \in DOMAIN m
    /\ SetStatusErr(m[id], status) = ""
    /\ UpdateErr(WsMap(m, id, status), SetStatus(m[id], status)) = ""

WsSetTaskStatus(t, id, status) ==
    /\ Idle(t)
    /\ version[RegOf[t]] < MaxVersion
    /\ \A u \in Threads : flock[u] = "none"
    /\ LET m == tasks[RegOf[t]]
           v == version[RegOf[t]]
           saved == WsSaves(m, id, status) /\ ~VersionConflict(file, v)
       IN  /\ tasks' = [tasks EXCEPT ![RegOf[t]] = WsMap(m, id, status)]
           /\ Return("SetTaskStatus", id, status, WsErr(m, file, v, id, status))
           /\ version' = [version EXCEPT ![RegOf[t]] = IF saved THEN v + 1 ELSE v]
           /\ IF saved
              THEN \E order \in Orders(WsMap(m, id, status)) :
                      file' = Marshal(v + 1, WsMap(m, id, status), order)
              ELSE file' = IF WsSaves(m, id, status) /\ file.state = "absent"
                           THEN Truncated ELSE file
    /\ UNCHANGED <<mu, flock, pc, buf>>
    /\ UNCHANGED <<argTask, last, breakerVars, retryVars, quotaVars>>

----------------------------------------------------------------------------
(* CircuitBreaker *)

CircuitClosed == "closed"
CircuitOpen == "open"
CircuitHalfOpen == "half-open"

Callers == {"g1", "g2"}
\* what the wrapped operation returns: nil or an error
FnResults == {"nil", "error"}

\* a timeout test that already passes when exactly resetTimeout has gone by
TimedOutAtOnce ==
    lastFailureTime = -1 \/ now - lastFailureTime >= resetTimeout

\* a timeout test that passes at any time
TimedOutAlways == TRUE

\* time.Since(cb.lastFailureTime) > cb.resetTimeout
TimedOut ==
    lastFailureTime = -1 \/ now - lastFailureTime > resetTimeout

\* the counter that is not cleared by a success
FailuresAfterNoReset(result) ==
    IF result = "nil" THEN failures ELSE failures + 1

\* the counter cleared only by the success of a half-open probe
FailuresAfterProbeOnly(result) ==
    IF result = "nil" THEN (IF state = CircuitHalfOpen THEN 0 ELSE failures)
    ELSE failures + 1

\* cb.failures after fn returned result
FailuresAfter(result) ==
    IF result = "nil" THEN 0 ELSE failures + 1

\* a success that leaves a half-open breaker half-open
StateAfterNoClose(result) ==
    IF result = "nil" THEN state
    ELSE IF failures + 1 >= failureThreshold THEN CircuitOpen ELSE state

\* cb.state after fn returned result
StateAfter(result) ==
    IF result = "nil"
    THEN IF state = CircuitHalfOpen THEN CircuitClosed ELSE state
    ELSE IF failures + 1 >= failureThreshold THEN CircuitOpen ELSE state

\* Call, first critical section: an open breaker rejects the call or, once
\* the timeout has passed, becomes half-open; then fn is started
CallEnter(g) ==
    /\ cbpc[g] = "idle"
    /\ IF state = CircuitOpen /\ ~TimedOut
       THEN /\ Return("Call", g, "", "circuit breaker is open")
            /\ UNCHANGED <<state, failures, cbpc>>
       ELSE /\ state' = IF state = CircuitOpen THEN CircuitHalfOpen ELSE state
            /\ failures' = IF state = CircuitOpen THEN 0 ELSE failures
            /\ cbpc' = [cbpc EXCEPT ![g] = "running"]
            /\ UNCHANGED ret
    /\ UNCHANGED <<lastFailureTime, now, streak>>
    /\ UNCHANGED <<tasks, version, mu, file, flock, pc, buf, argTask, last, retryVars, quotaVars>>

\* Call, second critical section: fn has returned result
CallExit(g, result) ==
    /\ cbpc[g] = "running"
    /\ failures' = FailuresAfter(result)
    /\ lastFailureTime' = IF result = "nil" THEN lastFailureTime ELSE now
    /\ state' = StateAfter(result)
    /\ streak' = IF result = "nil" THEN 0 ELSE streak + 1
    /\ cbpc' = [cbpc EXCEPT ![g] = "idle"]
    /\ Return("Call", g, result, IF result = "nil" THEN "" ELSE "fn error")
    /\ UNCHANGED now
    /\ UNCHANGED <<tasks, version, mu, file, flock, pc, buf, argTask, last, retryVars, quotaVars>>

\* time passes
Tick ==
    /\ now < MaxTime
    /\ now' = now + 1
    /\ UNCHANGED <<state, failures, lastFailureTime, cbpc, streak, ret>>
    /\ UNCHANGED <<tasks, version, mu, file, flock, pc, buf, argTask, last, retryVars, quotaVars>>

----------------------------------------------------------------------------
(* RetryableBackend: retryWithBackoff around CircuitBreaker.Call *)

\* the wrapper before NewRetryableBackend has run
NoConfig ==
    [MaxRetries |-> -1, InitialBackoff |-> 0, MaxBackoff |-> 0,
     BackoffFactor |-> <<1, 1>>]

\* backoff settings in clock ticks; BackoffFactor is the fraction <<n, d>>:
\* 1, 2, 2, ...; an InitialBackoff above MaxBackoff; a factor of 1.5
Backoffs ==
    {[InitialBackoff |-> 1, MaxBackoff |-> 2, BackoffFactor |-> <<2, 1>>],
     [InitialBackoff |-> 2, MaxBackoff |-> 1, BackoffFactor |-> <<2, 1>>],
     [InitialBackoff |-> 1, MaxBackoff |-> 3, BackoffFactor |-> <<3, 2>>]}

Configs ==
    {[MaxRetries |-> m, InitialBackoff |-> b.InitialBackoff,
      MaxBackoff |-> b.MaxBackoff, BackoffFactor |-> b.BackoffFactor] :
        m \in 0..MaxRetries, b \in Backoffs}

\* retryWithBackoff is not running
NoRetry == [pc |-> "idle", attempt |-> 0, lastErr |-> "", backoff |-> 0, wakeAt |-> 0]
NoSeq == [outcomes |-> <<>>, waits |-> <<>>, openUntil |-> -1, cancelled |-> FALSE]

\* time.Duration(float64(backoff) * BackoffFactor), capped at MaxBackoff
NextBackoff(b) ==
    LET grown == (b * config.BackoffFactor[1]) \div config.BackoffFactor[2]
    IN  IF grown > config.MaxBackoff THEN config.MaxBackoff ELSE grown

\* a loop that gives up one attempt early
ExhaustedEarly(g) == retry[g].attempt + 1 >= config.MaxRetries

\* the error that ends the loop after its last attempt wraps lastErr
Exhausted(g) == retry[g].attempt = config.MaxRetries

NewRetryableBackend(cfg) ==
    /\ config = NoConfig
    /\ config' = cfg
    /\ UNCHANGED <<ctxDone, retry, seq, ret>>
    /\ UNCHANGED <<tasks, version, mu, file, flock, pc, buf, argTask, last, breakerVars, quotaVars>>

\* Start / CreateSession call retryWithBackoff(ctx, fn); done tells whether
\* ctx is cancelled already
RetryStart(g, done) ==
    /\ config # NoConfig
    /\ retry[g].pc = "idle" /\ cbpc[g] = "idle"
    /\ retry' = [retry EXCEPT ![g] =
                    [pc |-> "call", attempt |-> 0, lastErr |-> "",
                     backoff |-> config.InitialBackoff, wakeAt |-> 0]]
    /\ ctxDone' = [ctxDone EXCEPT ![g] = done]
    /\ seq' = [seq EXCEPT ![g] =
                  [outcomes |-> <<>>, waits |-> <<>>,
                   openUntil |-> IF state = CircuitOpen
                                 THEN lastFailureTime + resetTimeout ELSE -1,
                   cancelled |-> done]]
    /\ UNCHANGED <<config, ret>>
    /\ UNCHANGED <<tasks, version, mu, file, flock, pc, buf, argTask, last, breakerVars, quotaVars>>

\* Call returned err: lastErr = err, then either the loop ends with the
\* error that wraps lastErr or the select on ctx.Done() and time.After begins
AfterError(g, err) ==
    IF Exhausted(g)
    THEN /\ retry' = [retry EXCEPT ![g].pc = "idle", ![g].lastErr = err]
         /\ Return("retryWithBackoff", g, err, "max retries exceeded")
    ELSE /\ retry' = [retry EXCEPT ![g].pc = "wait", ![g].lastErr = err,
                                   ![g].wakeAt = now + retry[g].backoff]
         /\ UNCHANGED ret

\* r.circuitBreaker.Call(fn), first critical section: an open breaker
\* rejects the call, otherwise fn is started
RetryCall(g) ==
    /\ retry[g].pc = "call" /\ cbpc[g] = "idle"
    /\ IF state = CircuitOpen /\ ~TimedOut
       THEN /\ AfterError(g, "circuit breaker is open")
            /\ seq' = [seq EXCEPT ![g].outcomes = Append(@, "open")]
            /\ UNCHANGED <<state, failures, cbpc>>
       ELSE /\ state' = IF state = CircuitOpen THEN CircuitHalfOpen ELSE state
            /\ failures' = IF state = CircuitOpen THEN 0 ELSE failures
            /\ cbpc' = [cbpc EXCEPT ![g] = "running"]
            /\ UNCHANGED <<retry, seq, ret>>
    /\ UNCHANGED <<lastFailureTime, now, streak, config, ctxDone>>
    /\ UNCHANGED <<tasks, version, mu, file, flock, pc, buf, argTask, last, quotaVars>>

\* fn returns result; Call, second critical section; then the loop body
RetryFn(g, result) ==
    /\ retry[g].pc = "call" /\ cbpc[g] = "running"
    /\ failures' = FailuresAfter(result)
    /\ lastFailureTime' = IF result = "nil" THEN lastFailureTime ELSE now
    /\ state' = StateAfter(result)
    /\ streak' = IF result = "nil" THEN 0 ELSE streak + 1
    /\ cbpc' = [cbpc EXCEPT ![g] = "idle"]
    /\ seq' = [seq EXCEPT ![g].outcomes = Append(@, result)]
    /\ IF result = "nil"
       THEN /\ retry' = [retry EXCEPT ![g].pc = "idle"]
            /\ Return("retryWithBackoff", g, "", "")
       ELSE AfterError(g, "fn error")
    /\ UNCHANGED <<now, config, ctxDone>>
    /\ UNCHANGED <<tasks, version, mu, file, flock, pc, buf, argTask, last, quotaVars>>

\* a cancellation that is only seen once the backoff is over
RetryCancelledLate(g) ==
    /\ retry[g].pc = "wait"
    /\ ctxDone[g] /\ now >= retry[g].wakeAt
    /\ retry' = [retry EXCEPT ![g].pc = "idle"]
    /\ Return("retryWithBackoff", g, "context canceled", "retry cancelled")
    /\ UNCHANGED <<config, ctxDone, seq>>
    /\ UNCHANGED <<tasks, version, mu, file, flock, pc, buf, argTask, last, breakerVars, quotaVars>>

\* select: case <-ctx.Done()
RetryCancelled(g) ==
    /\ retry[g].pc = "wait"
    /\ ctxDone[g]
    /\ retry' = [retry EXCEPT ![g].pc = "idle"]
    /\ Return("retryWithBackoff", g, "context canceled", "retry cancelled")
    /\ UNCHANGED <<config, ctxDone, seq>>
    /\ UNCHANGED <<tasks, version, mu, file, flock, pc, buf, argTask, last, breakerVars, quotaVars>>

\* select: case <-time.After(backoff), then the next backoff and attempt++
RetryWake(g) ==
    /\ retry[g].pc = "wait"
    /\ now >= retry[g].wakeAt
    /\ retry' = [retry EXCEPT ![g].pc = "call",
                              ![g].attempt = @ + 1,
                              ![g].backoff = NextBackoff(@)]
    /\ seq' = [seq EXCEPT ![g].waits = Append(@, retry[g].backoff)]
    /\ UNCHANGED <<config, ctxDone, ret>>
    /\ UNCHANGED <<tasks, version, mu, file, flock, pc, buf, argTask, last, breakerVars, quotaVars>>

\* the caller cancels the ctx of g's retryWithBackoff
Cancel(g) ==
    /\ retry[g].pc # "idle"
    /\ ~ctxDone[g]
    /\ ctxDone' = [ctxDone EXCEPT ![g] = TRUE]
    /\ UNCHANGED <<config, retry, seq, ret>>
    /\ UNCHANGED <<tasks, version, mu, file, flock, pc, buf, argTask, last, breakerVars, quotaVars>>

----------------------------------------------------------------------------
(* quota.Tracker, for one backend *)

\* Tracker.window and the limit SetLimit gave the backend, in clock ticks
\* and requests
window == 3
requestLimit == 2

\* RecordError's default when retryAfter is not positive
defaultRetryAfter == 3

\* no entry in t.usage
NoUsage ==
    [ok |-> FALSE, requests |-> 0, tokens |-> 0, lastRequest |-> -1,
     windowStart |-> -1, isExhausted |-> FALSE, retryAfter |-> -1]

\* usage, ok := t.usage[backend]; if !ok { usage = &Usage{WindowStart: now} }
Entry(u) == IF u.ok THEN u ELSE [NoUsage EXCEPT !.ok = TRUE, !.windowStart = now]

\* Record: the window is reset if it has expired
Windowed(u) ==
    IF now - u.windowStart > window
    THEN [u EXCEPT !.requests = 0, !.tokens = 0, !.windowStart = now,
                   !.isExhausted = FALSE]
    ELSE u

\* Record: the request is counted and the limit applied
Counted(u, tokens) ==
    LET c == [u EXCEPT !.requests = @ + 1, !.tokens = @ + tokens,
                       !.lastRequest = now]
    IN  IF c.requests >= requestLimit
        THEN [c EXCEPT !.isExhausted = TRUE, !.retryAfter = c.windowStart + window]
        ELSE c

\* the calls that completed while a goroutine was between its read of usage
\* and its reset
Noted(op) == [g \in Callers |-> IF tpc[g] = "upgrade" THEN since[g] \cup {op} ELSE since[g]]

\* Record(backend, tokens), all of it under t.mu.Lock()
Record(g, tokens) ==
    /\ tpc[g] = "idle"
    /\ usage.requests < MaxRequests
    /\ usage' = Counted(Windowed(Entry(usage)), tokens)
    /\ quotaFile' = usage'
    /\ since' = Noted("Record")
    /\ Return("Record", g, "", "")
    /\ UNCHANGED tpc
    /\ UNCHANGED <<tasks, version, mu, file, flock, pc, buf, argTask, last, breakerVars, retryVars>>

\* RecordError(backend, retryAfter), all of it under t.mu.Lock()
RecordError(g, retryAfter) ==
    /\ tpc[g] = "idle"
    /\ usage' = [Entry(usage) EXCEPT
                    !.isExhausted = TRUE,
                    !.retryAfter = now + (IF retryAfter > 0 THEN retryAfter
                                          ELSE defaultRetryAfter)]
    /\ quotaFile' = usage'
    /\ since' = Noted("RecordError")
    /\ Return("RecordError", g, "", "")
    /\ UNCHANGED tpc
    /\ UNCHANGED <<tasks, version, mu, file, flock, pc, buf, argTask, last, breakerVars, retryVars>>

\* usage.IsExhausted && time.Now().After(usage.RetryAfter)
Expired(u) == u.isExhausted /\ now > u.retryAfter

\* the reset of IsExhausted, applied to whatever usage holds by then
ResetUsage(u) ==
    [u EXCEPT !.isExhausted = FALSE, !.requests = 0, !.tokens = 0,
              !.windowStart = now]

\* IsExhausted under t.mu.RLock(): it returns, or it has decided to reset and
\* gives the read lock up
IsExhaustedRead(g) ==
    /\ tpc[g] = "idle"
    /\ IF usage.ok /\ Expired(usage)
       THEN /\ tpc' = [tpc EXCEPT ![g] = "upgrade"]
            /\ UNCHANGED ret
       ELSE /\ Return("IsExhausted", g, "",
                      IF usage.ok /\ usage.isExhausted THEN "true" ELSE "false")
            /\ UNCHANGED tpc
    /\ since' = [since EXCEPT ![g] = {}]
    /\ UNCHANGED <<usage, quotaFile>>
    /\ UNCHANGED <<tasks, version, mu, file, flock, pc, buf, argTask, last, breakerVars, retryVars>>

\* IsExhausted under t.mu.Lock(): the reset, save, and return false
IsExhaustedReset(g) ==
    /\ tpc[g] = "upgrade"
    /\ usage' = ResetUsage(usage)
    /\ quotaFile' = usage'
    /\ tpc' = [tpc EXCEPT ![g] = "idle"]
    /\ since' = [Noted("IsExhausted") EXCEPT ![g] = {}]
    /\ Return("IsExhausted", g, "", "false")
    /\ UNCHANGED <<tasks, version, mu, file, flock, pc, buf, argTask, last, breakerVars, retryVars>>

----------------------------------------------------------------------------
(* Initial state: NewRegistry() in every process, no manifest file yet, *)
(* NewCircuitBreaker(failureThreshold, resetTimeout)                    *)

Init ==
    /\ tasks = [r \in Regs |-> EmptyMap]
    /\ version = [r \in Regs |-> 0]
    /\ mu = [r \in Regs |-> "free"]
    /\ file = NoFile
    /\ flock = [t \in Threads |-> "none"]
    /\ pc = [t \in Threads |-> "idle"]
    /\ buf = [t \in Threads |-> NoFile]
    /\ ret = NoRet
    /\ argTask = NoTask
    /\ last = [t \in Threads |-> "none"]
    /\ state = CircuitClosed
    /\ failures = 0
    /\ lastFailureTime = -1
    /\ now = 0
    /\ cbpc = [g \in Callers |-> "idle"]
    /\ streak = 0
    /\ config = NoConfig
    /\ ctxDone = [g \in Callers |-> FALSE]
    /\ retry = [g \in Callers |-> NoRetry]
    /\ seq = [g \in Callers |-> NoSeq]
    /\ usage = NoUsage
    /\ quotaFile = NoUsage
    /\ tpc = [g \in Callers |-> "idle"]
    /\ since = [g \in Callers |-> {}]

----------------------------------------------------------------------------
(* Spec: one Registry driven through Add, Update and Delete *)

\* dependency lists of up to MaxDeps distinct ids, in every order
DepLists ==
    {d \in UNION {[1..k -> IDs] : k \in 0..MaxDeps} :
        \A i, j \in 1..Len(d) : i # j => d[i] # d[j]}

ValidTasks ==
    {[id |-> i, title |-> "t", status |-> s, deps |-> d] :
        i \in IDs, s \in {StatusPending, StatusComplete, StatusFailed},
        d \in DepLists}

InvalidTasks ==
    {[New("", "t") EXCEPT !.deps = <<>>],
     New("a", ""),
     [New("a", "t") EXCEPT !.status = "bogus"]}

Next ==
    \/ \E task \in ValidTasks \cup InvalidTasks : Add("t1", task)
    \/ \E task \in ValidTasks \cup InvalidTasks : Update("t1", task)
    \/ \E id \in IDs : Delete("t1", id)

Spec == Init /\ [][Next]_vars
----------------------------------------------------------------------------
(* SpecFile: two processes, each with its own Registry, sharing the file *)

SmallTasks ==
    {New("a", "t"), New("b", "t"), [New("b", "t") EXCEPT !.deps = <<"a">>]}

Persist(t) ==
    \/ SaveOpen(t)
    \/ SaveLock(t)
    \/ SaveCheck(t)
    \/ SaveWrite(t)
    \/ LoadOpen(t)
    \/ LoadLock(t)
    \/ LoadDecode(t)
    \/ LoadReplace(t)

NextFile ==
    \E t \in {"t1", "t3"} :
        \/ \E task \in SmallTasks : Add(t, task)
        \/ \E task \in SmallTasks : Update(t, task)
        \/ \E id \in {"a", "b"} : Delete(t, id)
        \/ Persist(t)

SpecFile == Init /\ [][NextFile]_vars
----------------------------------------------------------------------------
(* SpecShared: two goroutines of one process sharing one Registry *)

NextShared ==
    \E t \in {"t1", "t2"} :
        \/ \E task \in SmallTasks : Add(t, task)
        \/ \E id \in {"a", "b"} : Delete(t, id)
        \/ Persist(t)

SpecShared == Init /\ [][NextShared]_vars

----------------------------------------------------------------------------
(* SpecWs: one process changing task statuses *)

StatusArgs ==
    {StatusPending, StatusInProgress, StatusComplete, StatusFailed, "", "bogus"}

WsTasks ==
    {New("a", "t"), [New("b", "t") EXCEPT !.deps = <<"a">>],
     [New("b", "t") EXCEPT !.status = ""]}

WsUpdates ==
    {[New(i, "t") EXCEPT !.status = s] :
        i \in {"a", "b"},
        s \in {StatusPending, StatusInProgress, StatusComplete, StatusFailed}}

NextWs ==
    \/ \E task \in WsTasks : Add("t1", task)
    \/ \E task \in WsUpdates : Update("t1", task)
    \/ \E id \in {"a", "b"}, to \in StatusArgs : TaskSetStatus("t1", id, to)
    \/ \E id \in {"a", "b"}, to \in StatusArgs : WsSetTaskStatus("t1", id, to)

SpecWs == Init /\ [][NextWs]_vars
----------------------------------------------------------------------------
(* SpecCalls: one Registry, every call recorded with the Task it was given *)

\* Pending tasks with every dependency list, two tasks that differ from them
\* in title and status, two that repeat a dependency, and the tasks Validate
\* refuses
CallTasks ==
    {[New(i, "t") EXCEPT !.deps = d] : i \in IDs, d \in DepLists}
    \cup {[New("a", "u") EXCEPT !.status = StatusComplete],
          [New("b", "t") EXCEPT !.status = ""]}
    \cup {[New("c", "t") EXCEPT !.deps = <<"a", "a">>],
          [New("a", "t") EXCEPT !.deps = <<"b", "b">>]}
    \cup InvalidTasks

NextCalls ==
    \/ \E task \in CallTasks : AddCall("t1", task)
    \/ \E task \in CallTasks : UpdateCall("t1", task)
    \/ \E id \in IDs : Delete("t1", id)

SpecCalls == Init /\ [][NextCalls]_vars
----------------------------------------------------------------------------
(* SpecRoundTrip: a process builds a Registry and then saves it, while     *)
(* another process loads the file                                          *)

RoundTripTasks ==
    {New("a", "t"),
     [New("b", "t") EXCEPT !.deps = <<"a">>],
     [New("c", "t") EXCEPT !.deps = <<"b", "a">>],
     [New("a", "u") EXCEPT !.status = StatusComplete],
     [New("b", "t") EXCEPT !.status = ""]}

\* the saving process changes its Registry only before its first Save
BuildAdd(task) == version["r1"] = 0 /\ Add("t1", task)
BuildUpdate(task) == version["r1"] = 0 /\ Update("t1", task)
BuildDelete(id) == version["r1"] = 0 /\ Delete("t1", id)

NextRoundTrip ==
    \/ \E task \in RoundTripTasks : BuildAdd(task)
    \/ \E task \in RoundTripTasks : BuildUpdate(task)
    \/ \E id \in IDs : BuildDelete(id)
    \/ SaveOpen("t1") \/ SaveLock("t1") \/ SaveCheck("t1") \/ SaveWrite("t1")
    \/ LoadOpen("t3") \/ LoadLock("t3") \/ LoadDecode("t3") \/ LoadReplace("t3")

SpecRoundTrip == Init /\ [][NextRoundTrip]_vars
----------------------------------------------------------------------------
(* SpecIO: one process, with Truncate and Write failures in Save and a     *)
(* manifest that can be edited by hand                                     *)

\* hand-written manifests: a task with an unknown status, a dependency on a
\* task that is not in the file, a valid task followed by one without title
ForeignFiles ==
    {[state |-> "data", version |-> 1,
      tasks |-> <<Encode([New("c", "t") EXCEPT !.status = "bogus"])>>],
     [state |-> "data", version |-> 1,
      tasks |-> <<Encode([New("c", "t") EXCEPT !.deps = <<"a">>])>>],
     [state |-> "data", version |-> 1,
      tasks |-> <<Encode(New("c", "t")), Encode(New("b", ""))>>]}

NextIO ==
    \/ \E task \in SmallTasks : Add("t1", task)
    \/ Persist("t1")
    \/ SaveTruncateFail("t1")
    \/ SaveWriteFail("t1")
    \/ \E f \in ForeignFiles : ForeignWrite(f)

SpecIO == Init /\ [][NextIO]_vars
----------------------------------------------------------------------------
(* SpecBreaker: one goroutine calling through the breaker, one call at a time *)

NextBreaker ==
    \/ CallEnter("g1")
    \/ \E result \in FnResults : CallExit("g1", result)
    \/ Tick

SpecBreaker == Init /\ [][NextBreaker]_vars
----------------------------------------------------------------------------
(* SpecConcurrent: two goroutines calling through one breaker; the lock is *)
(* free while the wrapped operation runs, so their calls overlap           *)

NextConcurrent ==
    \/ \E g \in Callers : CallEnter(g)
    \/ \E g \in Callers, result \in FnResults : CallExit(g, result)
    \/ Tick

SpecConcurrent == Init /\ [][NextConcurrent]_vars
----------------------------------------------------------------------------
(* SpecRetry: one goroutine running retry sequences of one RetryableBackend *)

NextRetry ==
    \/ \E cfg \in Configs : NewRetryableBackend(cfg)
    \/ \E done \in BOOLEAN : RetryStart("g1", done)
    \/ RetryCall("g1")
    \/ \E result \in FnResults : RetryFn("g1", result)
    \/ RetryCancelled("g1")
    \/ RetryWake("g1")
    \/ Cancel("g1")
    \/ Tick

SpecRetry == Init /\ [][NextRetry]_vars
----------------------------------------------------------------------------
(* SpecRecover: a process that saves its change and, after every version  *)
(* conflict, loads, applies the change again and saves; another process   *)
(* adds, loads and saves as it likes, a bounded number of times           *)

ClientMutate(task) == last["t1"] # "saved" /\ Add("t1", task)
ClientSave == last["t1"] \in {"none", "loaded", "stale"} /\ AtomicSave("t1")
ClientLoad == last["t1"] = "conflict" /\ AtomicLoad("t1")
OtherSave == version["r2"] < MaxVersion /\ AtomicSave("t3")

NextRecover ==
    \/ \E task \in SmallTasks : ClientMutate(task)
    \/ ClientSave
    \/ ClientLoad
    \/ \E task \in SmallTasks : Add("t3", task)
    \/ OtherSave
    \/ AtomicLoad("t3")

\* the client goes on to its next Save or Load
SpecRecover ==
    Init /\ [][NextRecover]_vars /\ WF_vars(ClientSave) /\ WF_vars(ClientLoad)
----------------------------------------------------------------------------
(* SpecRace: in one process a goroutine goes through the calls of          *)
(* Workspace.SetTaskStatus while another one reads the ready set and saves *)

NextRace ==
    \/ \E task \in WsTasks : Add("t1", task)
    \/ \E id \in {"a", "b"}, to \in StatusArgs : TaskSetStatus("t1", id, to)
    \/ \E task \in WsUpdates : Update("t1", task)
    \/ GetReadyBegin("t2")
    \/ GetReadyEnd("t2")
    \/ SaveOpen("t2") \/ SaveLock("t2") \/ SaveCheck("t2") \/ SaveWrite("t2")

SpecRace == Init /\ [][NextRace]_vars
----------------------------------------------------------------------------
(* SpecSchedule: a graph is built with Add, Update and Delete; then an     *)
(* orchestrator takes one ready task after another and moves it to         *)
(* in_progress and on to complete                                          *)

SchedDeps == {<<>>, <<"a">>, <<"b">>, <<"a", "b">>, <<"c">>}

SchedTasks ==
    {[id |-> i, title |-> "t", status |-> s, deps |-> d] :
        i \in IDs, s \in {StatusPending, StatusComplete}, d \in SchedDeps}
    \cup {[New("a", "t") EXCEPT !.status = StatusFailed]}

SchedAdd(task) == pc["t2"] = "idle" /\ Add("t1", task)
SchedUpdate(task) == pc["t2"] = "idle" /\ Update("t1", task)
SchedDelete(id) == pc["t2"] = "idle" /\ Delete("t1", id)

\* the orchestrator's loop begins
OrchStart ==
    /\ pc["t2"] = "idle" /\ mu["r1"] = "free"
    /\ pc' = [pc EXCEPT !["t2"] = "run"]
    /\ UNCHANGED <<tasks, version, mu, file, flock, buf, ret>>
    /\ UNCHANGED <<argTask, last, breakerVars, retryVars, quotaVars>>

\* ready := reg.GetReady(); one of its tasks is started:
\* t.SetStatus(StatusInProgress); reg.Update(t)
OrchTake(id) ==
    /\ pc["t2"] = "run" /\ mu["r1"] = "free"
    /\ \E i \in 1..Len(GetReady(tasks["r1"])) : GetReady(tasks["r1"])[i].id = id
    /\ tasks' = [tasks EXCEPT !["r1"] = WsMap(@, id, StatusInProgress)]
    /\ argTask' = SetStatus(tasks["r1"][id], StatusInProgress)
    /\ pc' = [pc EXCEPT !["t2"] = "work"]
    /\ Return("Update", id, StatusInProgress, "")
    /\ UNCHANGED <<version, mu, file, flock, buf, last, breakerVars, retryVars, quotaVars>>

\* the task in hand is done: t.SetStatus(StatusComplete); reg.Update(t)
OrchFinish ==
    /\ pc["t2"] = "work" /\ mu["r1"] = "free"
    /\ tasks' = [tasks EXCEPT !["r1"] = WsMap(@, argTask.id, StatusComplete)]
    /\ argTask' = SetStatus(argTask, StatusComplete)
    /\ pc' = [pc EXCEPT !["t2"] = "run"]
    /\ Return("Update", argTask.id, StatusComplete, "")
    /\ UNCHANGED <<version, mu, file, flock, buf, last, breakerVars, retryVars, quotaVars>>

NextSchedule ==
    \/ \E task \in SchedTasks : SchedAdd(task)
    \/ \E task \in SchedTasks : SchedUpdate(task)
    \/ \E id \in IDs : SchedDelete(id)
    \/ OrchStart
    \/ \E id \in IDs : OrchTake(id)
    \/ OrchFinish

SpecSchedule ==
    /\ Init /\ [][NextSchedule]_vars
    /\ WF_vars(\E id \in IDs : OrchTake(id))
    /\ WF_vars(OrchFinish)
----------------------------------------------------------------------------
(* SpecAlias: a caller that keeps the pointers it gave to or got from the  *)
(* Registry and assigns their fields between its calls                     *)

AliasTasks ==
    {[id |-> i, title |-> ti, status |-> s, deps |-> d] :
        i \in {"a", "b"}, ti \in {"t", "u"},
        s \in {StatusPending, StatusComplete},
        d \in {<<>>, <<"a">>, <<"b">>}}

NextAlias ==
    \/ \E task \in AliasTasks : Add("t1", task)
    \/ \E task \in AliasTasks : Update("t1", task)
    \/ \E id \in {"a", "b"} : Delete("t1", id)
    \/ \E task \in AliasTasks : PointerWrite("t1", task.id, task)

SpecAlias == Init /\ [][NextAlias]_vars
----------------------------------------------------------------------------
(* SpecQuota: two goroutines recording requests and rate-limit errors of   *)
(* one backend and asking whether it is exhausted                          *)

NextQuota ==
    \/ \E g \in Callers, tokens \in {0, 2} : Record(g, tokens)
    \/ \E g \in Callers, retryAfter \in {0, 1} : RecordError(g, retryAfter)
    \/ \E g \in Callers : IsExhaustedRead(g)
    \/ \E g \in Callers : IsExhaustedReset(g)
    \/ Tick

SpecQuota == Init /\ [][NextQuota]_vars
----------------------------------------------------------------------------
(* SpecGraph: two processes that build dependency graphs over two ids,     *)
(* with edges in both directions on offer, and save and load them          *)

GraphTasks ==
    {New("a", "t"), New("b", "t"),
     [New("a", "t") EXCEPT !.deps = <<"b">>],
     [New("b", "t") EXCEPT !.deps = <<"a">>]}

GraphSave(t) == version[RegOf[t]] < MaxVersion /\ AtomicSave(t)

NextGraph ==
    \E t \in {"t1", "t3"} :
        \/ \E task \in GraphTasks : Add(t, task)
        \/ \E task \in GraphTasks : Update(t, task)
        \/ \E id \in {"a", "b"} : Delete(t, id)
        \/ GraphSave(t)
        \/ AtomicLoad(t)

SpecGraph == Init /\ [][NextGraph]_vars
----------------------------------------------------------------------------
(* Properties of the persistence protocol *)

\* the Registry map that a file's content decodes to
FileMap(f) == LoadResult(f).m

\* C1: a Save that has read the on-disk version under the exclusive lock
\* goes on to write only if the file is empty or its version equals the
\* saver's in-memory version; otherwise it returns the version-conflict error
\* and leaves the file and every Registry as they were.  A Save that writes
\* leaves exactly its own task set under its own version in the file.
C1_VersionCheckedSave ==
    [][\A t \in Threads :
        /\ (pc[t] = "save_check" /\ pc'[t] # "save_check") =>
              IF file.state = "data" /\ file.version # version[RegOf[t]]
              THEN /\ pc'[t] = "idle"
                   /\ ret'.op = "Save" /\ ret'.err = "version conflict"
                   /\ file' = file /\ version' = version /\ tasks' = tasks
              ELSE /\ pc'[t] = "save_write"
                   /\ version'[RegOf[t]] = version[RegOf[t]] + 1
        /\ (pc[t] = "save_write" /\ pc'[t] # "save_write") =>
              /\ ret'.op = "Save" /\ ret'.err = ""
              /\ file'.state = "data"
              /\ file'.version = version[RegOf[t]]
              /\ FileMap(file') = tasks[RegOf[t]]
    ]_vars

\* the loser's Save has just failed: the file holds r1's task set and version,
\* r2 still has the version both had loaded and a task set of its own
C1_Witness ==
    /\ ret.op = "Save" /\ ret.err = "version conflict"
    /\ file.state = "data" /\ file.version = 2
    /\ version["r1"] = 2 /\ version["r2"] = 1
    /\ FileMap(file) = tasks["r1"]
    /\ DOMAIN tasks["r1"] = {"a"} /\ DOMAIN tasks["r2"] = {"b"}

\* C2: while a thread is between acquiring and releasing the exclusive file
\* lock no other descriptor holds any lock on the file, and between a Save's
\* version check and its write the file is exactly as that Save truncated it.
C2_SaveIsExclusive ==
    \A t \in Threads :
        /\ pc[t] \in {"save_check", "save_write"} =>
              /\ flock[t] = "ex"
              /\ \A u \in Threads \ {t} : flock[u] = "none"
        /\ pc[t] = "save_write" =>
              /\ file = Truncated
              /\ buf[t].version = version[RegOf[t]]

\* one process is about to write while the other waits for the lock
C2_Witness ==
    /\ pc["t1"] = "save_write" /\ pc["t3"] = "save_lock"
    /\ version["r1"] = 2

\* C3: whenever a Load holds its shared lock, the file holds the complete
\* output of a successful Save.
C3_LoadSeesCompleteSave ==
    \A t \in Threads : flock[t] = "sh" => file.state = "data"

\* C4: when a goroutine is inside Save or Load, some goroutine of the process
\* can take its next step (the calls in progress are not stuck on each other).
C4_SaveLoadReturn ==
    (\E t \in {"t1", "t2"} : pc[t] # "idle") => ENABLED NextShared

----------------------------------------------------------------------------
(* Properties of the Registry *)

RECURSIVE ReachFrom(_, _, _)
\* the ids reached from the ids of `frontier` by following stored deps
ReachFrom(m, frontier, seen) ==
    IF frontier \subseteq seen THEN seen
    ELSE ReachFrom(m,
            UNION {{m[k].deps[i] : i \in 1..Len(m[k].deps)} :
                     k \in (frontier \ seen) \cap DOMAIN m},
            seen \cup frontier)

DepsOf(task) == {task.deps[i] : i \in 1..Len(task.deps)}

C8_GetReadyExact ==
    LET m == tasks["r1"]
        got == GetReady(m)
    IN  /\ {got[i] : i \in 1..Len(got)} =
             {m[k] : k \in {x \in DOMAIN m :
                 /\ m[x].status = StatusPending
                 /\ \A d \in DepsOf(m[x]) :
                        d \in DOMAIN m /\ m[d].status = StatusComplete}}
        /\ \A i, j \in 1..Len(got) : i # j => got[i].id # got[j].id

\* c waits for a (Complete) and b (Pending): b is ready, c is not
C8_Witness ==
    /\ DOMAIN tasks["r1"] = IDs
    /\ tasks["r1"]["a"].status = StatusComplete
    /\ tasks["r1"]["b"].status = StatusPending /\ tasks["r1"]["b"].deps = <<"a">>
    /\ tasks["r1"]["c"].status = StatusPending /\ tasks["r1"]["c"].deps = <<"a", "b">>
    /\ Len(GetReady(tasks["r1"])) = 1

----------------------------------------------------------------------------
(* Properties of the status machine *)

LegalMoves ==
    {<<StatusPending, StatusInProgress>>, <<StatusInProgress, StatusComplete>>,
     <<StatusInProgress, StatusFailed>>, <<StatusFailed, StatusPending>>}

C10_StoredStatusMovesLegally ==
    [][\A k \in DOMAIN tasks["r1"] \cap DOMAIN tasks'["r1"] :
        LET from == tasks["r1"][k].status
            to == tasks'["r1"][k].status
        IN  /\ ~(from = StatusPending /\ to = StatusComplete)
            /\ from = StatusComplete => to = StatusComplete
    ]_vars
----------------------------------------------------------------------------
(* Contracts of Add, Update and Delete *)

\* C11 (as claimed): after a successful Add(t), Get(t.id) returns a task
\* equal to t; an Add of any task whose id is already a key fails with the
\* duplicate error and leaves the Registry unchanged.
C11_AddNotIdempotent ==
    [][ret'.op = "Add" =>
        /\ ret'.err = "" =>
              Get(tasks'["r1"], argTask'.id) = [task |-> argTask', err |-> ""]
        /\ argTask'.id \in DOMAIN tasks["r1"] =>
              /\ ret'.err = "already exists"
              /\ tasks' = tasks
    ]_vars

\* C11 (amended): after a successful Add(t), Get(t.id) returns a task equal
\* to t; an Add of a task whose id is already a key fails and leaves the
\* Registry unchanged, with the duplicate error when the task passes
\* Validate and with the invalid-task error when it does not.
C11_AddNotIdempotentValid ==
    [][ret'.op = "Add" =>
        /\ ret'.err = "" =>
              Get(tasks'["r1"], argTask'.id) = [task |-> argTask', err |-> ""]
        /\ argTask'.id \in DOMAIN tasks["r1"] =>
              /\ ret'.err = IF Validate(argTask') = "" THEN "already exists"
                            ELSE "invalid task"
              /\ tasks' = tasks
    ]_vars

\* a second Add of a, with another title and status, has just been refused
\* as a duplicate and the stored a is as it was
C11_Witness ==
    /\ ret = [op |-> "Add", id |-> "a", arg |-> "", err |-> "already exists"]
    /\ argTask = New("a", "t")
    /\ DOMAIN tasks["r1"] = {"a", "b"}
    /\ tasks["r1"]["a"] = [id |-> "a", title |-> "u", status |-> StatusComplete,
                           deps |-> <<>>]
\* C12: an Add whose task lists an id that is no key at the time of the
\* call, or lists its own id, fails and leaves the Registry unchanged.
C12_AddNeedsStoredDeps ==
    [][(/\ ret'.op = "Add"
        /\ \E i \in 1..Len(argTask'.deps) :
               \/ argTask'.deps[i] \notin DOMAIN tasks["r1"]
               \/ argTask'.deps[i] = argTask'.id)
        => (ret'.err # "" /\ tasks' = tasks)
    ]_vars

\* a was to be added after b, on which it depends, and on itself: refused
C12_Witness ==
    /\ ret = [op |-> "Add", id |-> "a", arg |-> "", err |-> "dependency not found"]
    /\ argTask = [New("a", "t") EXCEPT !.deps = <<"b", "a">>]
    /\ DOMAIN tasks["r1"] = {"b"}
----------------------------------------------------------------------------
(* Contracts of Save and Load *)

C15_VersionCountsSaves ==
    [][\A t \in Threads :
        LET r == RegOf[t]
        IN  /\ (pc[t] = "save_check" /\ pc'[t] = "save_write") =>
                  version'[r] = version[r] + 1
            /\ (pc[t] = "save_check" /\ pc'[t] = "idle") =>
                  (ret'.err # "" /\ version'[r] = version[r])
            /\ (pc[t] = "save_write" /\ pc'[t] = "idle") =>
                  IF ret'.err = ""
                  THEN version'[r] = version[r] /\ file'.version = version'[r]
                  ELSE version'[r] = version[r] - 1
    ]_vars

\* C16: a Load that returns an error leaves the task map and the version of
\* every Registry as they were.
C16_FailedLoadNoEffect ==
    [][\A t \in Threads :
        (/\ pc[t] \in {"load_lock", "load_decode", "load_mu"}
         /\ pc'[t] = "idle"
         /\ ret'.err # "")
        => (tasks' = tasks /\ version' = version)
    ]_vars
\* a task with a non-empty id, a non-empty title and one of the four statuses
FullyValid(task) ==
    task.id # "" /\ task.title # "" /\ IsValid(task.status)

\* C17: every stored task has a non-empty id, a non-empty title and a status
\* among Pending, InProgress, Complete, Failed; an Add or Update of a task
\* that fails one of these is rejected and changes nothing.
C17_NeverStoresInvalid ==
    [][/\ \A k \in DOMAIN tasks'["r1"] : FullyValid(tasks'["r1"][k])
       /\ (ret'.op \in {"Add", "Update"} /\ ~FullyValid(argTask')) =>
              (ret'.err # "" /\ tasks' = tasks)
    ]_vars
----------------------------------------------------------------------------
(* Properties of the circuit breaker, one call at a time *)

\* goroutine g starts a Call in this step
Calls(g) == cbpc[g] = "idle" /\ now' = now
\* the wrapped operation of g's Call returns in this step
Returns(g) == cbpc[g] = "running" /\ cbpc'[g] = "idle"

\* C18: a Call on a Closed breaker invokes the wrapped operation and returns
\* its result; the breaker is Open afterwards exactly when that result is
\* the failureThreshold-th failure in a row, and is Closed otherwise.
C18_ClosedCountsFailures ==
    [][state = CircuitClosed =>
        /\ Calls("g1") => (cbpc'["g1"] = "running" /\ state' = CircuitClosed)
        /\ Returns("g1") =>
              /\ ret'.op = "Call" /\ ret'.arg \in FnResults
              /\ ret'.err = IF ret'.arg = "nil" THEN "" ELSE "fn error"
              /\ streak' = IF ret'.arg = "nil" THEN 0 ELSE streak + 1
              /\ state' = IF ret'.arg = "error" /\ streak' = failureThreshold
                          THEN CircuitOpen ELSE CircuitClosed
    ]_vars

\* the failureThreshold-th failure in a row has just opened the breaker
C18_Witness ==
    /\ state = CircuitOpen
    /\ streak = failureThreshold
    /\ ret = [op |-> "Call", id |-> "g1", arg |-> "error", err |-> "fn error"]
    /\ lastFailureTime = now /\ now = 2

\* C19: a Call on an Open breaker, made when no more than resetTimeout has
\* passed since the last failure, returns the breaker-open error, does not
\* invoke the wrapped operation and leaves state, failures and
\* lastFailureTime as they were.
C19_OpenRejects ==
    [][(/\ state = CircuitOpen
        /\ now - lastFailureTime <= resetTimeout
        /\ Calls("g1"))
        => /\ ret' = [op |-> "Call", id |-> "g1", arg |-> "",
                      err |-> "circuit breaker is open"]
           /\ cbpc' = cbpc
           /\ state' = state
           /\ failures' = failures
           /\ lastFailureTime' = lastFailureTime
    ]_vars

\* a call has just been rejected exactly resetTimeout after the last failure
C19_Witness ==
    /\ state = CircuitOpen
    /\ ret = [op |-> "Call", id |-> "g1", arg |-> "",
              err |-> "circuit breaker is open"]
    /\ now - lastFailureTime = resetTimeout
    /\ cbpc["g1"] = "idle"

\* C20: a Call on an Open breaker, made when more than resetTimeout has
\* passed since the last failure, is not rejected: the breaker becomes
\* HalfOpen with failures 0 and the wrapped operation runs; when that
\* operation succeeds the Call returns nil with the breaker Closed and
\* failures 0.
C20_HalfOpenProbe ==
    [][/\ (/\ state = CircuitOpen
           /\ now - lastFailureTime > resetTimeout
           /\ Calls("g1"))
          => /\ cbpc'["g1"] = "running"
             /\ state' = CircuitHalfOpen
             /\ failures' = 0
             /\ ret' = ret
       /\ (state = CircuitHalfOpen /\ Returns("g1") /\ ret'.arg = "nil")
          => /\ state' = CircuitClosed
             /\ failures' = 0
             /\ ret'.err = ""
    ]_vars

\* the probe call of a breaker that was open is running
C20_Witness ==
    /\ state = CircuitHalfOpen
    /\ cbpc["g1"] = "running"
    /\ failures = 0 /\ streak = failureThreshold
    /\ now - lastFailureTime = resetTimeout + 1

\* C21: when a call that ran on a HalfOpen breaker returns, the breaker is
\* Closed if the wrapped operation succeeded and Open if it failed; it is
\* never still HalfOpen.
C21_HalfOpenDecides ==
    [][(state = CircuitHalfOpen /\ Returns("g1")) =>
        state' = IF ret'.arg = "nil" THEN CircuitClosed ELSE CircuitOpen
    ]_vars

\* C22: a Call whose wrapped operation succeeds leaves failures = 0 whatever
\* the state was; failures never exceeds the number of failures in a row, so
\* the breaker opens only on the failureThreshold-th failure in a row or later.
C22_CountsConsecutive ==
    [][/\ (Returns("g1") /\ ret'.arg = "nil") => failures' = 0
       /\ failures' <= streak'
       /\ (state # CircuitOpen /\ state' = CircuitOpen) => streak' >= failureThreshold
    ]_vars

\* a success on a Closed breaker has just cleared a counter that a failure
\* one tick earlier had raised
C22_Witness ==
    /\ ret = [op |-> "Call", id |-> "g1", arg |-> "nil", err |-> ""]
    /\ state = CircuitClosed
    /\ failures = 0 /\ streak = 0
    /\ lastFailureTime = 0 /\ now = 1
----------------------------------------------------------------------------
(* Properties of retryWithBackoff *)

\* g's retryWithBackoff returns in this step
Returned(g) == retry[g].pc # "idle" /\ retry'[g].pc = "idle"

\* how often the wrapped operation was invoked in a sequence with outcomes o
Invocations(o) == Cardinality({i \in 1..Len(o) : o[i] # "open"})

\* C23: in one retry sequence the wrapped operation is invoked at most
\* MaxRetries + 1 times and never after it succeeded; when no call is
\* rejected by the breaker and the sequence is not cancelled, it returns
\* success right after the first successful invocation, and returns an error
\* only after exactly MaxRetries + 1 invocations that all failed.
C23_RetryCount ==
    [][Returned("g1") =>
        LET o == seq'["g1"].outcomes
            M == config.MaxRetries
        IN  /\ \A i \in 1..(Len(o) - 1) : o[i] # "nil"
            /\ Invocations(o) <= M + 1
            /\ ((\A i \in 1..Len(o) : o[i] # "open") /\ ret'.err # "retry cancelled")
               => /\ Len(o) >= 1 /\ Len(o) <= M + 1
                  /\ (ret'.err = "") <=> (o[Len(o)] = "nil")
                  /\ ret'.err # "" =>
                        /\ ret'.err = "max retries exceeded"
                        /\ Len(o) = M + 1
                        /\ \A i \in 1..Len(o) : o[i] = "error"
    ]_vars

\* with MaxRetries = 3 the operation failed once and then succeeded: two
\* invocations, one wait, success
C23_Witness ==
    /\ config.MaxRetries = 3
    /\ ret = [op |-> "retryWithBackoff", id |-> "g1", arg |-> "", err |-> ""]
    /\ seq["g1"].outcomes = <<"error", "nil">>
    /\ seq["g1"].waits = <<1>>
    /\ retry["g1"].pc = "idle"
    /\ state = CircuitClosed

\* C24: the error of a sequence that used up its attempts is "max retries
\* exceeded" wrapping the error the wrapped operation returned last.
C24_ExhaustedWrapsLastFailure ==
    [][(Returned("g1") /\ Exhausted("g1") /\ ret'.err # "") =>
        /\ ret'.err = "max retries exceeded"
        /\ ret'.arg = "fn error"
    ]_vars

\* C25: while a cancelled sequence waits between two attempts, returning
\* "retry cancelled" is possible at once, whatever is left of the backoff;
\* before the backoff is over it is the only way the sequence goes on, and
\* it invokes nothing.
C25_CancelAbortsWait ==
    [][(retry["g1"].pc = "wait" /\ ctxDone["g1"]) =>
        /\ ENABLED RetryCancelled("g1")
        /\ (now < retry["g1"].wakeAt /\ retry'["g1"] # retry["g1"]) =>
              /\ retry'["g1"].pc = "idle"
              /\ ret' = [op |-> "retryWithBackoff", id |-> "g1",
                         arg |-> "context canceled", err |-> "retry cancelled"]
              /\ seq' = seq /\ cbpc' = cbpc
              /\ now' = now
    ]_vars

\* a sequence cancelled during its second wait, of two ticks, has returned
\* without a tick having passed
C25_Witness ==
    /\ ret = [op |-> "retryWithBackoff", id |-> "g1",
              arg |-> "context canceled", err |-> "retry cancelled"]
    /\ retry["g1"].pc = "idle" /\ retry["g1"].attempt = 1
    /\ retry["g1"].wakeAt = now + 2
    /\ seq["g1"].outcomes = <<"error", "error">>
    /\ ctxDone["g1"]

\* C26: a "retry cancelled" error returned after a failed invocation carries
\* the error of the last failed invocation.
C26_CancelKeepsLastFailure ==
    [][(/\ Returned("g1")
        /\ ret'.err = "retry cancelled"
        /\ \E i \in 1..Len(seq["g1"].outcomes) : seq["g1"].outcomes[i] = "error")
        => ret'.arg = "fn error"
    ]_vars

\* x to the power k
RECURSIVE Pow(_, _)
Pow(x, k) == IF k = 0 THEN 1 ELSE x * Pow(x, k - 1)

\* min(InitialBackoff * BackoffFactor^(i-1), MaxBackoff) in whole ticks
CappedBackoff(i) ==
    LET grown == (config.InitialBackoff * Pow(config.BackoffFactor[1], i - 1))
                    \div Pow(config.BackoffFactor[2], i - 1)
    IN  IF grown > config.MaxBackoff THEN config.MaxBackoff ELSE grown

\* C33: the wait before attempt i+1 is min(InitialBackoff * BackoffFactor^(i-1),
\* MaxBackoff), so no wait exceeds MaxBackoff, whatever the configuration;
\* there is no wait before the first attempt and none after the last one.
C33_BackoffCapped ==
    LET w == seq["g1"].waits
        o == seq["g1"].outcomes
    IN  /\ \A i \in 1..Len(w) : w[i] = CappedBackoff(i) /\ w[i] <= config.MaxBackoff
        /\ Len(w) <= Len(o)
        /\ (retry["g1"].pc = "idle" /\ Len(o) > 0) => Len(w) = Len(o) - 1

\* no call of the sequence with outcomes o was rejected by the breaker
NoneRejected(o) == \A i \in 1..Len(o) : o[i] # "open"

\* C34 as stated: a sequence whose signal was cancelled before it began, with
\* MaxRetries >= 1, invokes the wrapped operation exactly once and returns
\* "retry cancelled" if that invocation failed and success if it succeeded; a
\* sequence whose final attempt failed returns "max retries exceeded" even if
\* its signal is cancelled.
C34_CancelledAtStartRunsOnce ==
    [][Returned("g1") =>
        LET o == seq'["g1"].outcomes
        IN  /\ (seq["g1"].cancelled /\ config.MaxRetries >= 1 /\ NoneRejected(o)) =>
                  /\ Invocations(o) = 1
                  /\ o[1] = "error" => ret'.err = "retry cancelled"
                  /\ o[1] = "nil" => ret'.err = ""
            /\ (Exhausted("g1") /\ ret'.err # "") => ret'.err = "max retries exceeded"
    ]_vars

\* C34, the part that holds in every schedule: a cancelled signal never stops the step that invokes the
\* wrapped operation, so a sequence cancelled before it began still makes its
\* first invocation and returns success if that succeeded; "retry cancelled"
\* is returned only from the wait between two attempts; a sequence cancelled
\* before it began that returns without having slept a whole backoff has
\* invoked the operation exactly once; and a sequence whose final attempt
\* failed returns "max retries exceeded" even if its signal is cancelled.
C34_CancelSeenOnlyInWait ==
    [][/\ (retry["g1"].pc = "call" /\ ctxDone["g1"]) =>
             /\ ENABLED (RetryCall("g1") \/ \E res \in FnResults : RetryFn("g1", res))
             /\ ~ENABLED RetryCancelled("g1")
       /\ Returned("g1") =>
            LET o == seq'["g1"].outcomes
            IN  /\ Len(o) >= 1
                /\ ret'.err = "retry cancelled" =>
                      /\ retry["g1"].pc = "wait" /\ ctxDone["g1"]
                      /\ retry["g1"].attempt < config.MaxRetries
                /\ (seq["g1"].cancelled /\ o[1] = "nil") => ret'.err = ""
                /\ (/\ seq["g1"].cancelled /\ config.MaxRetries >= 1
                    /\ NoneRejected(o) /\ seq["g1"].waits = <<>>) =>
                      /\ Invocations(o) = 1
                      /\ o[1] = "error" => ret'.err = "retry cancelled"
                /\ (Exhausted("g1") /\ ret'.err # "") =>
                      ret'.err = "max retries exceeded"
    ]_vars

\* a sequence whose signal was cancelled before it began has invoked the
\* operation once, which failed, and has returned "retry cancelled" from its
\* first wait
C34_Witness ==
    /\ ret = [op |-> "retryWithBackoff", id |-> "g1",
              arg |-> "context canceled", err |-> "retry cancelled"]
    /\ seq["g1"].cancelled /\ ctxDone["g1"]
    /\ seq["g1"].outcomes = <<"error">> /\ seq["g1"].waits = <<>>
    /\ config.MaxRetries >= 1
    /\ retry["g1"].pc = "idle" /\ retry["g1"].attempt = 0

\* C27: a sequence that starts on an Open breaker and returns no later than
\* resetTimeout after the failure that opened it has invoked nothing and
\* returns an error.
C27_BreakerOutlivesSequence ==
    [][(/\ Returned("g1")
        /\ seq["g1"].openUntil >= 0
        /\ now <= seq["g1"].openUntil)
        => /\ Invocations(seq'["g1"].outcomes) = 0
           /\ ret'.err # ""
    ]_vars

\* the second sequence of the wrapper found the breaker open at every one of
\* its attempts
C27_Witness ==
    /\ ret = [op |-> "retryWithBackoff", id |-> "g1",
              arg |-> "circuit breaker is open", err |-> "max retries exceeded"]
    /\ config.MaxRetries >= 1
    /\ Len(seq["g1"].outcomes) = config.MaxRetries + 1
    /\ \A i \in 1..Len(seq["g1"].outcomes) : seq["g1"].outcomes[i] = "open"
    /\ seq["g1"].openUntil >= now
    /\ state = CircuitOpen
----------------------------------------------------------------------------
(* Recovery from a version conflict *)

\* C28: a Save that follows a successful Load of the same Registry, with no
\* successful Save of another process in between, does not end in a version
\* conflict; and the process that loads and saves again after each conflict
\* eventually saves successfully.
C28_ConflictRecoverable ==
    /\ [][\A t \in {"t1", "t3"} : last[t] = "loaded" => last'[t] # "conflict"]_vars
    /\ <>(last["t1"] = "saved")

\* the client has saved version 2: it had met a conflict with version 1 of
\* the other process, loaded it, added its task again and saved
C28_Witness ==
    /\ last["t1"] = "saved" /\ last["t3"] = "stale"
    /\ ret = [op |-> "Save", id |-> "", arg |-> "", err |-> ""]
    /\ version["r1"] = 2 /\ file.version = 2 /\ version["r2"] = 1
    /\ DOMAIN tasks["r1"] = {"a", "b"}
    /\ DOMAIN FileMap(file) = {"a", "b"}

\* C29: a stored task of the shared Registry changes only in a step of a
\* goroutine that has the Registry's write lock: never while another
\* goroutine is inside GetReady (read lock) or inside Save (write lock).
C29_ChangesUnderWriteLock ==
    [][tasks'["r1"] # tasks["r1"] =>
        /\ ~Reading("r1")
        /\ mu["r1"] = "free" /\ mu'["r1"] = "free"
    ]_vars

\* C30: an Update of a stored id whose task is valid and whose deps are all
\* stored is refused as circular exactly when the id is among the new deps
\* or is reached from them over stored deps; otherwise it is accepted, two
\* paths to one task and a dependency listed twice included.
C30_CycleDetectionExact ==
    [][(/\ ret'.op = "Update"
        /\ Validate(argTask') = ""
        /\ argTask'.id \in DOMAIN tasks["r1"]
        /\ DepsOf(argTask') \subseteq DOMAIN tasks["r1"])
        => ret'.err =
              IF argTask'.id \in ReachFrom(tasks["r1"], DepsOf(argTask'), {})
              THEN "circular dependency detected" ELSE ""
    ]_vars

\* c was updated to depend on b and a while b depends on a, and a lists b
\* twice: two paths lead from c to b and to a
C30_Witness ==
    /\ ret = [op |-> "Update", id |-> "c", arg |-> "", err |-> ""]
    /\ argTask = [New("c", "t") EXCEPT !.deps = <<"a", "b">>]
    /\ tasks["r1"]["c"] = argTask
    /\ tasks["r1"]["a"].deps = <<"b", "b">>
    /\ tasks["r1"]["b"].deps = <<>>
----------------------------------------------------------------------------
(* Properties of the file's content over time *)

\* C31: a Save that passes the version check on a file with content goes on
\* to write that file's version plus 1; a Save that ends in a version
\* conflict leaves the file as it was; and while the file has content its
\* version changes in no other way.
C31_FileVersionCountsUp ==
    [][/\ \A t \in Threads :
            /\ (pc[t] = "save_check" /\ pc'[t] = "save_write" /\ file.state = "data")
                  => buf'[t].version = file.version + 1
            /\ (pc[t] = "save_check" /\ pc'[t] = "idle") => file' = file
            /\ (pc[t] = "save_write" /\ pc'[t] = "idle")
                  => file'.state = "data" /\ file'.version = buf[t].version
       /\ (file.state = "data" /\ file'.state = "data") => file'.version = file.version
    ]_vars

\* the second process has loaded version 1 and saved version 2 over it
C31_Witness ==
    /\ ret = [op |-> "Save", id |-> "", arg |-> "", err |-> ""]
    /\ file.state = "data" /\ file.version = 2
    /\ version["r2"] = 2 /\ version["r1"] = 1
    /\ pc["t1"] = "idle" /\ pc["t3"] = "idle"

\* every dependency of m is a key of m and no key reaches itself over deps
GraphOK(m) ==
    \A k \in DOMAIN m :
        /\ DepsOf(m[k]) \subseteq DOMAIN m
        /\ k \notin ReachFrom(m, DepsOf(m[k]), {})

----------------------------------------------------------------------------
(* Properties of the circuit breaker under concurrent calls *)

\* the call that made the breaker half-open has not returned: every return
\* since would have closed the breaker or counted a failure
ProbeInFlight == state = CircuitHalfOpen /\ failures = 0

\* C35: while the probe of a half-open breaker is in flight, no other call
\* starts the wrapped operation.
C35_SingleProbe ==
    [][\A g \in Callers :
          (cbpc[g] = "idle" /\ cbpc'[g] = "running") => ~ProbeInFlight
    ]_vars

\* C36: in every state reached by overlapping calls, an Open breaker has
\* counted at least failureThreshold failures and a Closed one fewer.
C36_StateMatchesCounter ==
    /\ state = CircuitOpen => failures >= failureThreshold
    /\ state = CircuitClosed => failures < failureThreshold
----------------------------------------------------------------------------
(* Scheduling *)

AllPendingOrComplete(m) ==
    \A k \in DOMAIN m : m[k].status \in {StatusPending, StatusComplete}

AllComplete(m) == \A k \in DOMAIN m : m[k].status = StatusComplete

----------------------------------------------------------------------------
(* Ownership of the stored tasks *)

\* C38: what the Registry holds changes only in a step that is a successful
\* Add, Update, Delete or Load; assigning the fields of a Task the caller
\* passed in or was handed out changes nothing.
C38_ContentsChangeOnlyByCalls ==
    [][tasks' # tasks =>
          /\ ret'.op \in {"Add", "Update", "Delete", "Load"}
          /\ ret'.err = ""
    ]_vars
----------------------------------------------------------------------------
(* Properties of the quota tracker *)

\* C39: when IsExhausted applies its reset, nothing that a Record or a
\* RecordError wrote after IsExhausted read the usage is cleared, and
\* IsExhausted does not return false while the backend is marked exhausted
\* with a retry time in the future.
C39_ResetIsAtomic ==
    [][\A g \in Callers :
          (tpc[g] = "upgrade" /\ tpc'[g] = "idle") =>
              /\ (since[g] \cap {"Record", "RecordError"} # {}) =>
                    /\ usage'.isExhausted = usage.isExhausted
                    /\ usage'.requests = usage.requests
                    /\ usage'.tokens = usage.tokens
              /\ ~(usage.isExhausted /\ usage.retryAfter > now)
    ]_vars
====
